---- MODULE Spec2Model ----
(***************************************************************************)
(* The chat client of ChatLlama (src/src/script.js): the session list      *)
(* (chats), the active session (currentChatId), the in-progress flag       *)
(* (isGenerating), the message view (messagesContainer) and the handlers   *)
(* that run between awaits: sendMessage and its stream reader,             *)
(* createNewChatWithMessage, selectChat / loadChatMessages, createNewChat, *)
(* deleteChat and loadChatList.                                            *)
(*                                                                         *)
(* JavaScript runs one callback at a time, so every action below is the    *)
(* code between two awaits of one handler.  Text is a sequence of          *)
(* one-character strings.                                                  *)
(***************************************************************************)
EXTENDS Integers, Sequences, FiniteSets, TLC

\* ------------------------------------------------------------------ bounds

\* Session ids the server hands out are 1..MaxChats; NULL is "no session".
MaxChats == 3
\* The clock (new Date()) runs over 0..MaxClock.
MaxClock == 1
\* Accepted sendMessage calls (turns started) in one run.
MaxSends == 2
\* selectChat clicks and confirmed deleteChat calls in one run.
MaxSelects == 1
MaxDeletes == 1
\* User operations of these three kinds together in one run.
MaxOps == 3
\* Sessions in the list GET /chats answers with.
MaxList == 2

NULL == 0
ChatIds == 1..MaxChats

\* ------------------------------------------------------------------ text

NL == "\n"
WhiteSpace == {" ", NL, "\t", "\r"}

\* String.prototype.trim
RECURSIVE TrimLeft(_)
TrimLeft(s) ==
    IF s # <<>> /\ Head(s) \in WhiteSpace THEN TrimLeft(Tail(s)) ELSE s

RECURSIVE TrimRight(_)
TrimRight(s) ==
    IF s # <<>> /\ s[Len(s)] \in WhiteSpace
    THEN TrimRight(SubSeq(s, 1, Len(s) - 1))
    ELSE s

Trim(s) == TrimRight(TrimLeft(s))

\* String.prototype.startsWith
StartsWith(s, p) == Len(s) >= Len(p) /\ SubSeq(s, 1, Len(p)) = p

\* String.prototype.endsWith
EndsWith(s, p) == Len(s) >= Len(p) /\ SubSeq(s, Len(s) - Len(p) + 1, Len(s)) = p

\* buffer.indexOf('\n\n'): 0-based index of the first occurrence, -1 if none.
IndexOfBoundary(buffer) ==
    LET hits == {i \in 1..(Len(buffer) - 1) : buffer[i] = NL /\ buffer[i + 1] = NL}
    IN  IF hits = {} THEN -1
        ELSE (CHOOSE i \in hits : \A j \in hits : i <= j) - 1

\* A test that is satisfied by one newline.
IncludesNewline(buffer) == \E i \in DOMAIN buffer : buffer[i] = NL

\* buffer.includes('\n\n')
IncludesBoundary(buffer) == IndexOfBoundary(buffer) # -1

\* String.prototype.substring(from) and substring(0, to), 0-based
SubstringFrom(s, from) == SubSeq(s, from + 1, Len(s))
SubstringTo(s, to) == SubSeq(s, 1, to)

\* ------------------------------------------------------------- wire format

DataPrefix == <<"d", "a", "t", "a", ":", " ">>
DoneData == <<"[", "D", "O", "N", "E", "]">>
Boundary == <<NL, NL>>

TokenOpen == <<"{", "\"", "t", "o", "k", "e", "n", "\"", ":", "\"">>
StringClose == <<"\"", "}">>
\* The result event is written without its memory_stats member, which
\* updateMemoryDisplay (lines 554-558) reads and drops.
ResultOpen ==
    <<"{", "\"", "m", "e", "m", "o", "r", "i", "e", "s", "_",
      "a", "d", "d", "e", "d", "\"", ":">>
ReasonOpen == <<"{", "\"", "r", "e", "a", "s", "o", "n", "\"", ":", "\"">>
ObjectClose == <<"}">>

Digits == {"0", "1", "2"}
DigitValue(d) == IF d = "0" THEN 0 ELSE IF d = "1" THEN 1 ELSE 2

\* Characters that may stand unescaped inside a JSON string.
PlainChar(c) == c \notin {"\"", "\\", NL, "\t", "\r"}

\* JSON.parse(data), for the payload shapes of the /chat-stream events:
\* {"token":"..."}, {"memories_added":d} and {"reason":"..."}.  Any other text
\* is a SyntaxError (kind "invalid"), which line 303 catches.
JSONParse(data) ==
    IF /\ StartsWith(data, TokenOpen) /\ EndsWith(data, StringClose)
       /\ Len(data) >= Len(TokenOpen) + Len(StringClose)
       /\ \A i \in (Len(TokenOpen) + 1)..(Len(data) - Len(StringClose)) :
              PlainChar(data[i])
    THEN [kind |-> "token",
          token |-> SubSeq(data, Len(TokenOpen) + 1, Len(data) - Len(StringClose)),
          memories_added |-> -1]
    ELSE IF /\ StartsWith(data, ResultOpen) /\ EndsWith(data, ObjectClose)
            /\ Len(data) = Len(ResultOpen) + 2
            /\ data[Len(ResultOpen) + 1] \in Digits
    THEN [kind |-> "result", token |-> <<>>,
          memories_added |-> DigitValue(data[Len(ResultOpen) + 1])]
    ELSE IF /\ StartsWith(data, ReasonOpen) /\ EndsWith(data, StringClose)
            /\ Len(data) >= Len(ReasonOpen) + Len(StringClose)
            /\ \A i \in (Len(ReasonOpen) + 1)..(Len(data) - Len(StringClose)) :
                   PlainChar(data[i])
    THEN [kind |-> "reason", token |-> <<>>, memories_added |-> -1]
    ELSE [kind |-> "invalid", token |-> <<>>, memories_added |-> -1]

\* One event on the wire: "data: <payload>\n\n"
Frame(payload) == DataPrefix \o payload \o Boundary
TokenFrame(c) == Frame(TokenOpen \o <<c>> \o StringClose)
ResultFrame(d) == Frame(ResultOpen \o <<d>> \o ObjectClose)
ErrorFrame == Frame(ReasonOpen \o <<"x">> \o StringClose)
DoneFrame == Frame(DoneData)

\* ------------------------------------------------------------------- state

VARIABLES
    chats,              \* line 3: the session list, records [id, updated_at]
    currentChatId,      \* line 2: the active session or NULL
    isGenerating,       \* line 4: the in-progress flag
    sendDisabled,       \* sendButton.disabled
    messageInput,       \* messageInput.value
    view,               \* messagesContainer's children, in document order
    listReq,            \* the GET /chats of line 18: "pending" or "done"
    loads,              \* loadChatMessages calls awaiting GET /chat/<id>
    deletes,            \* deleteChat calls awaiting DELETE /chat/<id>
    turns,              \* sendMessage / createNewChatWithMessage calls in flight
    now,                \* the clock read by new Date()
    sends,              \* sendMessage calls accepted so far
    selects,            \* selectChat clicks so far
    deleted,            \* deleteChat calls confirmed so far
    last                \* the request that completed last (history)

vars == <<chats, currentChatId, isGenerating, sendDisabled, messageInput, view,
          listReq, loads, deletes, turns, now, sends, selects, deleted, last>>

\* The user operations so far.
Ops == sends + selects + deleted

\* ------------------------------------------------------------ message view

\* One child of messagesContainer.  id is the streaming placeholder's element
\* id (the turn's number) and 0 for the elements the code never looks up again;
\* chat is the session a message loaded by loadChatMessages belongs to.
Elem(type, id, text, cursor, mem, chat) ==
    [type |-> type, id |-> id, text |-> text, cursor |-> cursor,
     mem |-> mem, chat |-> chat]

\* formatMessage on one character: lines 496-501 (escaping) and 539 (<br>).
FormatChar(c) ==
    IF c = "&" THEN <<"&", "a", "m", "p", ";">>
    ELSE IF c = "<" THEN <<"&", "l", "t", ";">>
    ELSE IF c = ">" THEN <<"&", "g", "t", ";">>
    ELSE IF c = "\"" THEN <<"&", "q", "u", "o", "t", ";">>
    ELSE IF c = "'" THEN <<"&", "#", "x", "2", "7", ";">>
    ELSE IF c = NL THEN <<"<", "b", "r", ">">>
    ELSE <<c>>

\* formatMessage, for text without the markdown characters ` * # -
RECURSIVE FormatMessage(_)
FormatMessage(text) ==
    IF text = <<>> THEN <<>>
    ELSE FormatChar(Head(text)) \o FormatMessage(Tail(text))

AddMessageToUI(v, type, content, memoriesAdded) ==
    Append(v, Elem(type, 0, FormatMessage(content), FALSE,
                   IF type = "assistant" /\ memoriesAdded > 0 THEN memoriesAdded ELSE 0,
                   0))

AddStreamingMessagePlaceholder(v, id) ==
    Append(v, Elem("stream", id, <<>>, TRUE, 0, 0))

\* An update that writes the rendered text without the cursor span.
UpdateWithoutCursor(v, id, content) ==
    [i \in DOMAIN v |->
        IF v[i].id = id
        THEN [v[i] EXCEPT !.text = FormatMessage(content), !.cursor = FALSE]
        ELSE v[i]]

\* lines 406-417: the rendered text, then the cursor span
UpdateStreamingMessage(v, id, content) ==
    [i \in DOMAIN v |->
        IF v[i].id = id
        THEN [v[i] EXCEPT !.text = FormatMessage(content), !.cursor = TRUE]
        ELSE v[i]]

FinalizeStreamingMessage(v, id, memoriesAdded) ==
    [i \in DOMAIN v |->
        IF v[i].id = id
        THEN [v[i] EXCEPT !.cursor = FALSE,
                          !.mem = IF memoriesAdded > 0 THEN memoriesAdded ELSE @]
        ELSE v[i]]

\* An error that reaches the console only.
AddNoMessage(v) == v

AddErrorMessage(v) == Append(v, Elem("error", 0, <<>>, FALSE, 0, 0))

\* A removal that finds no element.
RemoveNothing(v, id) == v

\* lines 485-490: removeMessage takes the element with that id out
IsNotElement(e, id) == e.id # id
RemoveMessage(v, id) == SelectSeq(v, LAMBDA e : IsNotElement(e, id))

HasError(v) == \E i \in DOMAIN v : v[i].type = "error"

\* ------------------------------------------------------------ session list

Chat(id, ts) == [id |-> id, updated_at |-> ts]

IdsOf(cs) == {cs[i].id : i \in DOMAIN cs}

\* chats.findIndex(c => c.id === id), 1-based; 0 when there is none
FindIndex(cs, id) ==
    LET hits == {i \in DOMAIN cs : cs[i].id = id}
    IN  IF hits = {} THEN 0 ELSE CHOOSE i \in hits : \A j \in hits : i <= j

\* cs without its element at index i (chats.splice(i, 1))
Splice(cs, i) == SubSeq(cs, 1, i - 1) \o SubSeq(cs, i + 1, Len(cs))

\* chats.push(chat) in place of unshift
UnshiftAtEnd(cs, chat) == Append(cs, chat)

\* chats.unshift(chat)
Unshift(cs, chat) == <<chat>> \o cs

\* A move to the top that keeps the old timestamp.
MoveToTopUnstamped(cs, id, ts) ==
    LET chatIndex == FindIndex(cs, id)
    IN  IF chatIndex > 0
        THEN <<cs[chatIndex]>> \o Splice(cs, chatIndex)
        ELSE cs

\* lines 311-317: move the session to the top and stamp it
MoveToTop(cs, id, ts) ==
    LET chatIndex == FindIndex(cs, id)
    IN  IF chatIndex > 0
        THEN Unshift(Splice(cs, chatIndex), [cs[chatIndex] EXCEPT !.updated_at = ts])
        ELSE cs

\* line 340: chats.filter(c => c.id !== chatId)
KeepOther(c, chatId) == c.id # chatId
RemoveChat(cs, chatId) == SelectSeq(cs, LAMBDA c : KeepOther(c, chatId))

\* -------------------------------------------------------------- the parser

\* A reader that forgets the unfinished line of the previous read.
AppendChunkDropsBuffer(buffer, chunk) == chunk

\* line 271: buffer += chunk
AppendChunk(buffer, chunk) == buffer \o chunk

\* One event, as the history of a turn records it.
TokenEvent(tok) == [kind |-> "token", token |-> tok]
ResultEvent == [kind |-> "result", token |-> <<>>]
DoneEvent == [kind |-> "done", token |-> <<>>]
\* A complete line the loop consumed without acting on it: a payload that is
\* not JSON ("invalid"), an error event, which has a reason but no token and
\* no memories_added ("error"), other JSON with neither ("ignored"), a line
\* that does not start with "data: " ("noprefix").
SkippedEvent(why) == [kind |-> why, token |-> <<>>]

\* The parser's locals (buffer, fullResponse), whether [DONE] made the
\* function return, the view, and the events acted on so far.
ParseState(buffer, fullResponse, v, events) ==
    [buffer |-> buffer, fullResponse |-> fullResponse, returned |-> FALSE,
     view |-> v, events |-> events]

\* A parse error that ends the loop.
ParseErrorEndsLoop(st) ==
    [st EXCEPT !.returned = TRUE, !.events = Append(@, SkippedEvent("invalid"))]

\* lines 303-305: the SyntaxError of JSON.parse is caught and logged
OnParseError(st) == [st EXCEPT !.events = Append(@, SkippedEvent("invalid"))]

\* A renderer that keeps the last fragment alone.
AccumulateLast(fullResponse, token) == token

\* line 293: fullResponse += parsed.token
Accumulate(fullResponse, token) == fullResponse \o token

\* lines 288-305: one data payload that is not [DONE]
HandleData(st, id, data) ==
    LET parsed == JSONParse(data)
    IN  IF parsed.kind = "token" /\ parsed.token # <<>>
        THEN LET full == Accumulate(st.fullResponse, parsed.token)
             IN  [st EXCEPT !.fullResponse = full,
                            !.view = UpdateStreamingMessage(st.view, id, full),
                            !.events = Append(@, TokenEvent(parsed.token))]
        ELSE IF parsed.kind = "result"
        THEN [st EXCEPT !.view = FinalizeStreamingMessage(st.view, id,
                                                          parsed.memories_added),
                        !.events = Append(@, ResultEvent)]
        ELSE IF parsed.kind = "invalid"
        THEN OnParseError(st)
        ELSE IF parsed.kind = "reason"
        THEN [st EXCEPT !.events = Append(@, SkippedEvent("error"))]
        ELSE [st EXCEPT !.events = Append(@, SkippedEvent("ignored"))]

\* A [DONE] that is noted and read past.
KeepsParsing(st) == [st EXCEPT !.events = Append(@, DoneEvent)]

\* lines 284-287: [DONE] makes sendMessage return
CloseParser(st) == [st EXCEPT !.returned = TRUE, !.events = Append(@, DoneEvent)]

\* lines 275-307: while (buffer.includes('\n\n')) { ... }
RECURSIVE ProcessBuffer(_, _)
ProcessBuffer(st, id) ==
    IF st.returned \/ ~IncludesBoundary(st.buffer) THEN st
    ELSE LET doubleNewlineIndex == IndexOfBoundary(st.buffer)
             line == Trim(SubstringTo(st.buffer, doubleNewlineIndex))
             st1 == [st EXCEPT !.buffer = SubstringFrom(@, doubleNewlineIndex + 2)]
         IN  IF ~StartsWith(line, DataPrefix)
             THEN ProcessBuffer([st1 EXCEPT !.events =
                                     Append(@, SkippedEvent("noprefix"))], id)
             ELSE LET data == SubstringFrom(line, Len(DataPrefix))
                  IN  IF data = DoneData
                      THEN ProcessBuffer(CloseParser(st1), id)
                      ELSE ProcessBuffer(HandleData(st1, id, data), id)

\* ------------------------------------------------------------------ inputs

\* What the user types into messageInput.
Inputs == {<<" ">>, <<"h", "i">>}

\* The bodies /chat-stream answers with, as the application-level
\* specification draws them: a clean turn, a turn whose channel closes
\* without [DONE], a terminal error event.
CleanStream == TokenFrame("a") \o ResultFrame("1") \o DoneFrame
NoDoneStream == TokenFrame("a") \o ResultFrame("0")
ErrorStream == ErrorFrame
Streams == {CleanStream, NoDoneStream, ErrorStream}

\* The session lists GET /chats answers with: sessions 1..k for a k up to
\* MaxList (ids are opaque, so which ids the server lists does not matter),
\* most recently updated first, no timestamp later than the clock.
RECURSIVE Stamped(_, _, _)
Stamped(id, k, maxTs) ==
    IF id > k THEN {<<>>}
    ELSE UNION {{<<Chat(id, ts)>> \o l : l \in Stamped(id + 1, k, ts)} :
                ts \in 0..maxTs}

ServerLists(clock) == UNION {Stamped(1, k, clock) : k \in 0..MaxList}

\* ------------------------------------------------------------------- turns

\* The locals of one sendMessage / createNewChatWithMessage call in flight.
\* body is the whole text /chat-stream answers with and pos the number of
\* its characters read so far; events is history: the complete lines the loop
\* has consumed.
Turn(tid, kind, phase, message, chat_id) ==
    [tid |-> tid, kind |-> kind, phase |-> phase, message |-> message,
     chat_id |-> chat_id, body |-> <<>>, pos |-> 0,
     buffer |-> <<>>, fullResponse |-> <<>>, events |-> <<>>]

\* The text of the body read so far, and the text still to come.
Received(t) == SubSeq(t.body, 1, t.pos)
Rest(t) == SubSeq(t.body, t.pos + 1, Len(t.body))

NoTurn == Turn(0, "none", "none", <<>>, NULL)

\* The request that completed last: how it ended, its number (a turn's tid, a
\* deletion's n), the session it was about and, for a turn, its locals when
\* it ended.
Step(op, n, chat, t) == [op |-> op, n |-> n, chat |-> chat, turn |-> t]

\* What the history keeps of a turn that ended by an exception: the request
\* it made.
Thrown(t) == Turn(t.tid, t.kind, t.phase, t.message, t.chat_id)

Init ==
    /\ chats = <<>>
    /\ currentChatId = NULL
    /\ isGenerating = FALSE
    /\ sendDisabled = FALSE
    /\ messageInput = <<>>
    /\ view = <<>>
    /\ listReq = "pending"
    /\ loads = {}
    /\ deletes = {}
    /\ turns = {}
    /\ now = 0
    /\ sends = 0
    /\ selects = 0
    /\ deleted = 0
    /\ last = Step("none", 0, NULL, NoTurn)

\* ------------------------------------------------------------ environment

\* new Date(): some time not before the last one read.
ClockRead(ts) == ts \in now..MaxClock /\ now' = ts

\* The user edits the message box.
TypeInput ==
    /\ \E text \in Inputs : messageInput' = text
    /\ messageInput' # messageInput
    /\ UNCHANGED <<chats, currentChatId, isGenerating, sendDisabled, view, listReq,
                   loads, deletes, turns, now, sends, selects, deleted, last>>

\* ------------------------------------------------------------ loadChatList

\* lines 41-44: GET /chats answers; the server stamped its sessions no later
\* than the time ts at which it answers
LoadChatListOk ==
    /\ listReq = "pending"
    /\ \E ts \in now..MaxClock :
          /\ ClockRead(ts)
          /\ \E list \in ServerLists(ts) : chats' = list
    /\ listReq' = "done"
    /\ UNCHANGED <<currentChatId, isGenerating, sendDisabled, messageInput, view,
                   loads, deletes, turns, sends, selects, deleted, last>>

\* lines 45-47: the request or response.json() throws
LoadChatListFails ==
    /\ listReq = "pending"
    /\ listReq' = "done"
    /\ UNCHANGED <<chats, currentChatId, isGenerating, sendDisabled, messageInput,
                   view, loads, deletes, turns, now, sends, selects, deleted, last>>

\* ------------------------------------------- selectChat / loadChatMessages

\* What GET /chat/<id> answers with (data.messages).
Histories == {<<[role |-> "user", content |-> <<"h", "i">>]>>}

Load(chatId, n) == [chat |-> chatId, n |-> n]

\* lines 92-103: the part of selectChat before loadChatMessages awaits; n
\* numbers the load it starts
SelectChatSync(chatId, n) ==
    IF chatId = currentChatId
    THEN UNCHANGED <<currentChatId, loads>>
    ELSE /\ currentChatId' = chatId
         /\ loads' = loads \cup {Load(chatId, n)}

\* lines 81-85: a click on a session of the rendered list
SelectChat ==
    /\ selects < MaxSelects /\ Ops < MaxOps
    /\ \E i \in DOMAIN chats : SelectChatSync(chats[i].id, selects + 1)
    /\ selects' = selects + 1
    /\ UNCHANGED <<chats, isGenerating, sendDisabled, messageInput, view, listReq,
                   deletes, turns, now, sends, deleted, last>>

\* lines 115-119: the view is replaced by the session's messages
RenderHistory(messages, chatId) ==
    [i \in DOMAIN messages |->
        [AddMessageToUI(<<>>, messages[i].role, messages[i].content, 0)[1]
            EXCEPT !.chat = chatId]]

\* lines 112-128: both requests of loadChatMessages answer
LoadMessagesOk ==
    /\ \E l \in loads, messages \in Histories :
          /\ view' = RenderHistory(messages, l.chat)
          /\ loads' = loads \ {l}
    /\ UNCHANGED <<chats, currentChatId, isGenerating, sendDisabled, messageInput,
                   listReq, deletes, turns, now, sends, selects, deleted, last>>

\* lines 130-133: GET /chat/<id> fails, nothing was rendered
LoadMessagesFails ==
    /\ \E l \in loads : loads' = loads \ {l}
    /\ view' = AddErrorMessage(view)
    /\ UNCHANGED <<chats, currentChatId, isGenerating, sendDisabled, messageInput,
                   listReq, deletes, turns, now, sends, selects, deleted, last>>

\* lines 124-133: the messages were rendered, GET /memory-stats/<id> fails
LoadStatsFails ==
    /\ \E l \in loads, messages \in Histories :
          /\ view' = AddErrorMessage(RenderHistory(messages, l.chat))
          /\ loads' = loads \ {l}
    /\ UNCHANGED <<chats, currentChatId, isGenerating, sendDisabled, messageInput,
                   listReq, deletes, turns, now, sends, selects, deleted, last>>

\* ------------------------------------------------------------ createNewChat

\* lines 136-160: the New Chat button
CreateNewChat ==
    /\ currentChatId' = NULL
    /\ view' = <<Elem("newchat", 0, <<>>, FALSE, 0, 0)>>
    /\ UNCHANGED <<chats, isGenerating, sendDisabled, messageInput, listReq, loads,
                   deletes, turns, now, sends, selects, deleted, last>>

\* --------------------------------------------------------------- deleteChat

Deletion(chatId, n) == [chat |-> chatId, n |-> n]

\* line 331 answered OK, lines 334-336: the request is sent
DeleteChat ==
    /\ deleted < MaxDeletes /\ Ops < MaxOps
    /\ \E i \in DOMAIN chats :
          deletes' = deletes \cup {Deletion(chats[i].id, deleted + 1)}
    /\ deleted' = deleted + 1
    /\ UNCHANGED <<chats, currentChatId, isGenerating, sendDisabled, messageInput,
                   view, listReq, loads, turns, now, sends, selects, last>>

\* line 331: the user declines the confirmation
DeleteDeclined ==
    /\ chats # <<>>
    /\ UNCHANGED <<chats, currentChatId, isGenerating, sendDisabled, messageInput,
                   view, listReq, loads, deletes, turns, now, sends, selects, deleted,
                   last>>

\* A deletion that never clears the main area.
DeletedNeverCurrent(chatId) == FALSE

\* line 344: was the deleted session the active one
DeletedIsCurrent(chatId) == chatId = currentChatId

\* lines 338-349: the server answers OK
DeleteOk ==
    /\ \E d \in deletes :
          /\ deletes' = deletes \ {d}
          /\ chats' = RemoveChat(chats, d.chat)
          /\ IF DeletedIsCurrent(d.chat)
             THEN currentChatId' = NULL /\ view' = <<>>
             ELSE UNCHANGED <<currentChatId, view>>
          /\ last' = Step("deleteOk", d.n, d.chat, NoTurn)
    /\ UNCHANGED <<isGenerating, sendDisabled, messageInput, listReq, loads, turns,
                   now, sends, selects, deleted>>

\* A deletion that takes the session off the list whatever the answer.
DeleteFailsRemoves ==
    /\ \E d \in deletes :
          /\ deletes' = deletes \ {d}
          /\ chats' = RemoveChat(chats, d.chat)
          /\ last' = Step("deleteFailed", d.n, d.chat, NoTurn)
    /\ UNCHANGED <<currentChatId, isGenerating, sendDisabled, messageInput,
                   view, listReq, loads, turns, now, sends, selects, deleted>>

\* lines 350-355: the server answers with a non-OK status, or the request
\* throws: an alert, nothing else
DeleteFails ==
    /\ \E d \in deletes :
          /\ deletes' = deletes \ {d}
          /\ last' = Step("deleteFailed", d.n, d.chat, NoTurn)
    /\ UNCHANGED <<chats, currentChatId, isGenerating, sendDisabled, messageInput,
                   view, listReq, loads, turns, now, sends, selects, deleted>>

\* -------------------------------------------------------------- sendMessage

\* A guard that looks at the flag alone.
RejectsGeneratingOnly(message) == isGenerating

\* A guard that looks at the text alone.
RejectsEmptyOnly(message) == message = <<>>

\* line 219: if (!message || isGenerating) return;
Rejected(message) == message = <<>> \/ isGenerating

\* lines 211-212 and 323-324: the finally blocks
Release ==
    /\ isGenerating' = FALSE
    /\ sendDisabled' = FALSE

\* A return that leaves the function without running the finally block.
ReturnSkipsFinally == UNCHANGED <<isGenerating, sendDisabled>>

\* line 286: return inside the try block, so the finally block runs
ReturnFromLoop == Release

\* A branch that never takes the creation path.
NeverCreates == FALSE

\* line 222: if (!currentChatId)
NoCurrentChat == currentChatId = NULL

\* line 219 returns: nothing happens
SendRejected ==
    /\ Rejected(Trim(messageInput))
    /\ UNCHANGED vars

\* lines 222-224 and 164-182: no active session, POST /new-chat is sent
SendCreates ==
    /\ sends < MaxSends /\ Ops < MaxOps
    /\ ~Rejected(Trim(messageInput))
    /\ NoCurrentChat
    /\ LET message == Trim(messageInput)
           t == Turn(sends + 1, "create", "fetch", Trim(message), NULL)
       IN  /\ view' = AddMessageToUI(<<>>, "user", message, 0)
           /\ turns' = turns \cup {t}
    /\ messageInput' = <<>>
    /\ isGenerating' = TRUE
    /\ sendDisabled' = TRUE
    /\ sends' = sends + 1
    /\ UNCHANGED <<chats, currentChatId, listReq, loads, deletes, now, selects,
                   deleted, last>>

\* lines 227-250: POST /chat-stream is sent for the active session
SendStreams ==
    /\ sends < MaxSends /\ Ops < MaxOps
    /\ ~Rejected(Trim(messageInput))
    /\ ~NoCurrentChat
    /\ LET message == Trim(messageInput)
           t == Turn(sends + 1, "stream", "fetch", message, currentChatId)
       IN  /\ view' = AddStreamingMessagePlaceholder(
                          AddMessageToUI(view, "user", message, 0), t.tid)
           /\ turns' = turns \cup {t}
    /\ messageInput' = <<>>
    /\ isGenerating' = TRUE
    /\ sendDisabled' = TRUE
    /\ sends' = sends + 1
    /\ UNCHANGED <<chats, currentChatId, listReq, loads, deletes, now, selects,
                   deleted, last>>

\* lines 217-250: one call of sendMessage, up to its first await
SendMessage == SendRejected \/ SendCreates \/ SendStreams

\* ------------------------------------------------ createNewChatWithMessage

\* lines 184-207, 210-214: POST /new-chat answers without an error field
CreateOk ==
    /\ \E t \in turns, id \in ChatIds \ IdsOf(chats), ts \in now..MaxClock :
          /\ t.kind = "create"
          /\ ClockRead(ts)
          /\ chats' = Unshift(chats, Chat(id, ts))
          /\ SelectChatSync(id, MaxSelects + t.tid)
          /\ view' = AddMessageToUI(view, "assistant", <<"o", "k">>, 1)
          /\ turns' = turns \ {t}
          /\ last' = Step("createOk", t.tid, id, t)
    /\ Release
    /\ UNCHANGED <<messageInput, listReq, deletes, sends, selects, deleted>>

\* lines 186-187 or 208-209, then 210-214: the answer carries an error field,
\* or fetch or response.json() throws: an error message is shown
CreateFails ==
    /\ \E t \in turns :
          /\ t.kind = "create"
          /\ turns' = turns \ {t}
          /\ last' = Step("createFailed", t.tid, NULL, Thrown(t))
    /\ view' = AddErrorMessage(view)
    /\ Release
    /\ UNCHANGED <<chats, currentChatId, messageInput, listReq, loads, deletes, now,
                   sends, selects, deleted>>

\* ------------------------------------------------------- the stream reader

\* lines 252-254 and 319-327: a non-OK status, or fetch throws
FetchFails ==
    /\ \E t \in turns :
          /\ t.kind = "stream" /\ t.phase = "fetch"
          /\ view' = AddErrorMessage(RemoveMessage(view, t.tid))
          /\ turns' = turns \ {t}
          /\ last' = Step("fetchFailed", t.tid, t.chat_id, Thrown(t))
    /\ Release
    /\ UNCHANGED <<chats, currentChatId, messageInput, listReq, loads, deletes, now,
                   sends, selects, deleted>>

\* lines 258-261: the response is OK, the reader is set up
FetchOk ==
    /\ \E t \in turns, body \in Streams :
          /\ t.kind = "stream" /\ t.phase = "fetch"
          /\ LET t1 == [t EXCEPT !.phase = "reading", !.body = body]
             IN  turns' = (turns \ {t}) \cup {t1}
    /\ UNCHANGED <<chats, currentChatId, isGenerating, sendDisabled, messageInput,
                   view, listReq, loads, deletes, now, sends, selects, deleted, last>>

\* lines 264-308: reader.read() yields the next n characters of the body and
\* the loop consumes every complete line of the buffer
ReadChunk(t, n) ==
    /\ t.kind = "stream" /\ t.phase = "reading"
    /\ n \in 1..Len(Rest(t))
    /\ LET chunk == SubSeq(Rest(t), 1, n)
           st == ProcessBuffer(
                     ParseState(AppendChunk(t.buffer, chunk), t.fullResponse,
                                view, t.events),
                     t.tid)
           t1 == [t EXCEPT !.pos = @ + n,
                           !.buffer = st.buffer,
                           !.fullResponse = st.fullResponse,
                           !.events = st.events]
       IN  /\ view' = st.view
           /\ IF st.returned
              THEN \* line 286: return, then the finally block
                   /\ turns' = turns \ {t}
                   /\ last' = Step("readReturned", t.tid, t.chat_id, t1)
                   /\ ReturnFromLoop
              ELSE /\ turns' = (turns \ {t}) \cup {t1}
                   /\ UNCHANGED <<isGenerating, sendDisabled, last>>
    /\ UNCHANGED <<chats, currentChatId, messageInput, listReq, loads, deletes, now,
                   sends, selects, deleted>>

\* lines 265-268, 310-317, 322-327: reader.read() reports done
ReadDone ==
    /\ \E t \in turns, ts \in now..MaxClock :
          /\ t.kind = "stream" /\ t.phase = "reading"
          /\ Rest(t) = <<>>
          /\ ClockRead(ts)
          /\ chats' = MoveToTop(chats, currentChatId, ts)
          /\ turns' = turns \ {t}
          /\ last' = Step("readDone", t.tid, t.chat_id, t)
    /\ Release
    /\ UNCHANGED <<currentChatId, messageInput, view, listReq, loads, deletes,
                   sends, selects, deleted>>

\* lines 319-327: reader.read() throws
ReadThrows ==
    /\ \E t \in turns :
          /\ t.kind = "stream" /\ t.phase = "reading"
          /\ view' = AddErrorMessage(RemoveMessage(view, t.tid))
          /\ turns' = turns \ {t}
          /\ last' = Step("readThrew", t.tid, t.chat_id, Thrown(t))
    /\ Release
    /\ UNCHANGED <<chats, currentChatId, messageInput, listReq, loads, deletes, now,
                   sends, selects, deleted>>

\* ---------------------------------------------------------- specifications

\* The length of a chunk that ends with the next complete frame of the body.
FrameEnd(rest) == IndexOfBoundary(rest) + 2

\* The network delivers the body frame by frame, or all that is left at once.
ReadFrames ==
    \E t \in turns : \E n \in {FrameEnd(Rest(t)), Len(Rest(t))} : ReadChunk(t, n)

Next ==
    \/ TypeInput
    \/ LoadChatListOk
    \/ LoadChatListFails
    \/ SelectChat
    \/ LoadMessagesOk
    \/ LoadMessagesFails
    \/ LoadStatsFails
    \/ CreateNewChat
    \/ DeleteChat
    \/ DeleteDeclined
    \/ DeleteOk
    \/ DeleteFails
    \/ SendRejected
    \/ SendCreates
    \/ SendStreams
    \/ CreateOk
    \/ CreateFails
    \/ FetchFails
    \/ FetchOk
    \/ ReadFrames
    \/ ReadDone
    \/ ReadThrows

Spec == Init /\ [][Next]_vars


\* --------------------------------------------- the stream reader, by itself

\* The longest body, in pieces.
MaxPieces == 3

\* What a body is made of: the frames of the protocol (one token is a
\* character formatMessage escapes), a frame whose payload is not JSON, a comment line, a stray newline, and text that no boundary
\* follows.
BadFrame == Frame(<<"{">>)
CommentLine == <<":">> \o Boundary
Fragment == DataPrefix \o <<"{">>
Pieces == {TokenFrame("a"), TokenFrame("<"), ResultFrame("1"), ErrorFrame, DoneFrame,
           BadFrame, CommentLine, <<NL>>, Fragment}

RECURSIVE Bodies(_)
Bodies(n) ==
    IF n = 0 THEN {<<>>}
    ELSE {<<>>} \cup {p \o b : p \in Pieces, b \in Bodies(n - 1)}

\* A turn on session 2 of a list of two has been sent and its response is OK;
\* the body is any sequence of pieces.
InitStream ==
    /\ chats = <<Chat(1, 0), Chat(2, 0)>>
    /\ currentChatId = 2
    /\ isGenerating = TRUE
    /\ sendDisabled = TRUE
    /\ messageInput = <<>>
    /\ view = AddStreamingMessagePlaceholder(
                  AddMessageToUI(<<>>, "user", <<"h", "i">>, 0), 1)
    /\ listReq = "done"
    /\ loads = {}
    /\ deletes = {}
    /\ \E body \in Bodies(MaxPieces) :
          turns = {[Turn(1, "stream", "reading", <<"h", "i">>, 2)
                       EXCEPT !.body = body]}
    /\ now = 0
    /\ sends = 1
    /\ selects = 1
    /\ deleted = 0
    /\ last = Step("none", 0, NULL, NoTurn)

\* The network delivers the body in chunks of any length.
ReadAny ==
    \E t \in turns : \E n \in 1..Len(Rest(t)) : ReadChunk(t, n)

NextStream ==
    \/ ReadAny
    \/ ReadDone
    \/ ReadThrows

SpecStream == InitStream /\ [][NextStream]_vars


\* ------------------------------------------------------------------ claims

\* The events sendMessage acts on when the text arrives in one read.
OneShotEvents(text) ==
    ProcessBuffer(ParseState(AppendChunk(<<>>, text), <<>>, <<>>, <<>>), 0).events

\* C1: however the body is split into reads, the lines the loop has consumed
\* after any read are those it consumes when the text read so far arrives in
\* one read, and when the call ends, by [DONE] or by the channel closing, they
\* are those of the whole body arriving in one read: no event twice, none
\* skipped.
C1_ChunkingInvariance ==
    /\ \A t \in turns :
          t.phase = "reading" => t.events = OneShotEvents(Received(t))
    /\ last.op \in {"readReturned", "readDone"} =>
          last.turn.events = OneShotEvents(last.turn.body)

\* C1 witness: an event has been acted on, and the last read ended between
\* the two newlines of the next event's boundary.
C1_Witness ==
    \E t \in turns :
        /\ t.phase = "reading"
        /\ \E i \in DOMAIN t.events : t.events[i].kind = "token"
        /\ t.buffer # <<>>
        /\ t.buffer[Len(t.buffer)] = NL
        /\ StartsWith(Rest(t), <<NL>>)


\* A request completes in this step, in the way op names.
Completes(op) == last' # last /\ last'.op = op

\* a is b with some elements left out, the others in b's order.
RECURSIVE IsSubSeq(_, _)
IsSubSeq(a, b) ==
    IF a = <<>> THEN TRUE
    ELSE IF b = <<>> THEN FALSE
    ELSE IF Head(a) = Head(b) THEN IsSubSeq(Tail(a), Tail(b))
    ELSE IsSubSeq(a, Tail(b))

\* The sessions other than id, in list order.
Others(cs, id) == SelectSeq(cs, LAMBDA c : c.id # id)

HasEvent(events, kind) == \E i \in DOMAIN events : events[i].kind = kind

\* Token events, then the result event, then [DONE].
CleanTurn(events) ==
    /\ Len(events) >= 3
    /\ events[Len(events)].kind = "done"
    /\ events[Len(events) - 1].kind = "result"
    /\ \A i \in 1..(Len(events) - 2) : events[i].kind = "token"

\* C2: when the channel closes before [DONE] has been processed, the turn is
\* a failed one: the session list is left as it was (no move to the front, no
\* new updated_at) and an error message is shown.
C2_ClosureIsFailure ==
    [][Completes("readDone") => (chats' = chats /\ HasError(view'))]_vars

\* C3: when a turn ends cleanly (tokens, result, [DONE]) on a session of the
\* list, that session is first in chats when sendMessage finishes and the
\* other sessions keep their order.
C3_CleanTurnMovesToFront ==
    [][(/\ Completes("readReturned")
        /\ CleanTurn(last'.turn.events)
        /\ last'.chat = currentChatId
        /\ last'.chat \in IdsOf(chats))
       => (/\ chats'[1].id = last'.chat
           /\ Others(chats', last'.chat) = Others(chats, last'.chat))]_vars

\* The events of turn tid after this step: those of the call still in flight,
\* or those it had when it ended in this step.
EventsAfter(tid) ==
    IF \E u \in turns' : u.tid = tid
    THEN (CHOOSE u \in turns' : u.tid = tid).events
    ELSE IF last' # last /\ last'.n = tid /\ last'.turn.kind = "stream"
    THEN last'.turn.events
    ELSE <<>>

Count(events, kind) == Cardinality({i \in DOMAIN events : events[i].kind = kind})

\* C4: the read in which sendMessage consumes a terminal error event (a
\* complete data event with a reason, no token and no memories_added) leaves
\* an error message in the view.
C4_ErrorEventShown ==
    [][\A t \in turns :
          Count(EventsAfter(t.tid), "error") > Count(t.events, "error")
          => HasError(view')]_vars

\* C5: while a turn is in flight for one session, a sendMessage with
\* non-empty text for another, selected session passes the guard of line 219.
C5_GuardPerSession ==
    (/\ currentChatId # NULL
     /\ Trim(messageInput) # <<>>
     /\ \E t \in turns : t.kind = "stream" /\ t.chat_id # currentChatId)
    => ~Rejected(Trim(messageInput))

\* C6: at most one turn request (POST /chat-stream or POST /new-chat) of this
\* client is in flight at any time.
C6_OneTurnInFlight == Cardinality(turns) <= 1

\* C6 witness: a sendMessage with non-empty text meets a turn in flight.
C6_Witness ==
    /\ turns # {}
    /\ Trim(messageInput) # <<>>
    /\ sends < MaxSends

\* C7: when no sendMessage or createNewChatWithMessage call is in flight,
\* whichever way the last one ended, isGenerating is false and the send
\* button is enabled.
C7_GuardReleased ==
    turns = {} => (~isGenerating /\ ~sendDisabled)

\* C7 witness: a turn has ended by [DONE], the return inside the loop.
C7_Witness ==
    /\ last.op = "readReturned"
    /\ turns = {}
    /\ ~isGenerating

\* C8: chats is ordered most recently updated first.
C8_ListOrdered ==
    \A i, j \in DOMAIN chats :
        i < j => chats[i].updated_at >= chats[j].updated_at

\* C8 witness: a turn on the second session of the list ended by the channel
\* closing, and the session went to the top with a later timestamp.
C8_Witness ==
    /\ last.op = "readDone"
    /\ sends = 1
    /\ Len(chats) = 2
    /\ chats[1].id = 2 /\ chats[2].id = 1
    /\ last.chat = 2
    /\ chats[1].updated_at > chats[2].updated_at

\* C9: when POST /new-chat answers without an error field, the new session
\* is first in chats, the sessions that were there follow in their order,
\* and it is the active session.
C9_CreationInsertsAtFront ==
    [][Completes("createOk")
       => (/\ chats' # <<>>
           /\ chats'[1].id = last'.chat
           /\ Tail(chats') = chats
           /\ currentChatId' = last'.chat)]_vars

\* C9 witness: a session was created while the list held another one and
\* another session was active.
C9_Witness ==
    /\ last.op = "createOk"
    /\ Len(chats) >= 2
    /\ chats[1].id = last.chat
    /\ currentChatId = last.chat
    /\ selects = 1

\* C10: when the server answers OK to the deletion of session X, chats has no
\* X and the other sessions keep their order; the active session and the
\* message view are cleared if X was the active session and are left alone
\* if it was not.
C10_Deletion ==
    [][Completes("deleteOk")
       => (/\ last'.chat \notin IdsOf(chats')
           /\ IsSubSeq(chats', chats)
           /\ Len(chats') = Cardinality({i \in DOMAIN chats : chats[i].id # last'.chat})
           /\ IF last'.chat = currentChatId
              THEN currentChatId' = NULL /\ view' = <<>>
              ELSE currentChatId' = currentChatId /\ view' = view)]_vars

\* C10 witness: the active session, with messages on display, was deleted
\* from a list of two.
C10_Witness ==
    /\ last.op = "deleteOk"
    /\ selects = 1
    /\ last.chat \notin IdsOf(chats)
    /\ Len(chats) = 1
    /\ currentChatId = NULL
    /\ view = <<>>

\* The token fragments of the events, concatenated in order.
RECURSIVE TokensOf(_)
TokensOf(events) ==
    IF events = <<>> THEN <<>>
    ELSE Head(events).token \o TokensOf(Tail(events))

\* The streaming message of turn tid shows text with the cursor as given.
Shows(v, tid, text) ==
    \A i \in DOMAIN v : v[i].id = tid => v[i].text = text

\* C11: after every read, the streaming message of a turn shows the rendering
\* (formatMessage) of all token fragments consumed so far in the turn,
\* concatenated in arrival order; the same holds when the turn has ended.
C11_TokenReassembly ==
    /\ \A t \in turns :
          t.kind = "stream" =>
              Shows(view, t.tid, FormatMessage(TokensOf(t.events)))
    /\ last.op \in {"readReturned", "readDone"} =>
          Shows(view, last.n, FormatMessage(TokensOf(last.turn.events)))

\* C11 witness: two fragments have arrived, the second one escaped by the
\* rendering, and the message shows both.
C11_Witness ==
    \E t \in turns : \E i \in DOMAIN view :
        /\ t.phase = "reading"
        /\ TokensOf(t.events) = <<"a", "<">>
        /\ view[i].id = t.tid
        /\ view[i].text = <<"a", "&", "l", "t", ";">>

\* C12: as long as a turn has not consumed the result event, its streaming
\* message, from the placeholder through every token update, carries the
\* cursor.
C12_CursorUntilResult ==
    \A t \in turns :
        (t.kind = "stream" /\ ~HasEvent(t.events, "result"))
        => \A i \in DOMAIN view : view[i].id = t.tid => view[i].cursor

\* C12 witness: a token has been rendered, no result event yet, and the
\* message carries the cursor after its text.
C12_Witness ==
    \E t \in turns : \E i \in DOMAIN view :
        /\ t.phase = "reading"
        /\ HasEvent(t.events, "token")
        /\ ~HasEvent(t.events, "result")
        /\ view[i].id = t.tid
        /\ view[i].text # <<>>
        /\ view[i].cursor

\* C13: a sendMessage call that finds the input empty after trimming sends
\* no request and leaves chats, currentChatId, isGenerating, the send button,
\* the input and the view as they were.
C13_EmptyInputRejected ==
    [][(SendMessage /\ Trim(messageInput) = <<>>)
       => UNCHANGED <<chats, currentChatId, isGenerating, sendDisabled,
                      messageInput, view, turns, sends>>]_vars

\* C13 witness: the input holds white space only, a session is active and no
\* turn is in flight, so the text is all that makes sendMessage return.
C13_Witness ==
    /\ messageInput # <<>>
    /\ Trim(messageInput) = <<>>
    /\ currentChatId # NULL
    /\ ~isGenerating
    /\ sends < MaxSends

\* The calls that are in flight after this step and were not before it.
NewTurns == {t \in turns' : \A u \in turns : u.tid # t.tid}

\* C14: a sendMessage call that passes the guard issues exactly one request:
\* POST /new-chat when there is no active session, POST /chat-stream carrying
\* the active session's id when there is one; no other step issues either.
C14_CreateIffNoSession ==
    [][/\ (SendMessage /\ ~Rejected(Trim(messageInput)))
           => Cardinality(NewTurns) = 1
       /\ NewTurns # {} => SendMessage
       /\ \A t \in NewTurns :
             IF currentChatId = NULL
             THEN t.kind = "create"
             ELSE t.kind = "stream" /\ t.chat_id = currentChatId]_vars

\* C14 witness: the first message created a session, the second one is
\* streamed to it.
C14_Witness ==
    \E t \in turns :
        /\ last.op = "createOk"
        /\ t.kind = "stream"
        /\ t.chat_id = last.chat
        /\ t.tid = last.n + 1

\* C15: when the end of a streamed turn changes chats, the session that is
\* now first (moved there, its updated_at refreshed) is the one the message
\* was sent to, whatever the user selected since.
C15_MovedIsSentTo ==
    [][(Completes("readDone") /\ chats' # chats)
       => (/\ chats'[1].id = last'.chat
           /\ Others(chats', last'.chat) = Others(chats, last'.chat))]_vars

\* C16: whenever a session is active, no loadChatMessages call is in flight
\* and none has left an error on display, the messages on display that a
\* load rendered are those of the active session, in whatever order the
\* responses of overlapping selectChat calls arrived.
C16_HistoryMatchesActive ==
    (loads = {} /\ currentChatId # NULL /\ ~HasError(view)) =>
        \A i \in DOMAIN view : view[i].chat # 0 => view[i].chat = currentChatId

\* The number of "\n\n" boundaries in the text, found left to right.
RECURSIVE CompleteEvents(_)
CompleteEvents(text) ==
    IF IndexOfBoundary(text) = -1 THEN 0
    ELSE 1 + CompleteEvents(SubstringFrom(text, IndexOfBoundary(text) + 2))

\* The text read so far is what the loop consumed, which is empty or ends
\* with a boundary, followed by the buffer, which holds no boundary.
OnlyBuffered(t) ==
    LET received == Received(t)
        consumed == SubSeq(received, 1, Len(received) - Len(t.buffer))
    IN  /\ EndsWith(received, t.buffer)
        /\ consumed = <<>> \/ EndsWith(consumed, Boundary)
        /\ IndexOfBoundary(t.buffer) = -1
        /\ Len(t.events) = CompleteEvents(consumed)

\* C17: text that no "\n\n" follows is buffered and not acted on: after
\* every read the events acted on are as many as the boundaries consumed and
\* the rest of the text read is in the buffer; when the channel closes, what
\* the buffer holds is dropped with no event acted on and no change to the
\* view.
C17_NoPartialEvent ==
    /\ [](\A t \in turns : t.phase = "reading" => OnlyBuffered(t))
    /\ [][Completes("readDone")
          => (/\ view' = view
              /\ \E t \in turns : /\ t.tid = last'.n
                                  /\ last'.turn.events = t.events)]_vars

\* C17 witness: the channel closed on a turn that had acted on an event and
\* held the beginning of another in its buffer.
C17_Witness ==
    /\ last.op = "readDone"
    /\ last.turn.events # <<>>
    /\ StartsWith(last.turn.buffer, DataPrefix)

\* C18: when isGenerating is false again, no streaming message on display
\* carries the cursor, whichever way the turn ended.
C18_NoCursorAfterTurn ==
    ~isGenerating =>
        \A i \in DOMAIN view : view[i].type = "stream" => ~view[i].cursor

\* The error messages on display.
ErrorCount(v) == Cardinality({i \in DOMAIN v : v[i].type = "error"})

\* C19: when a /chat-stream turn ends by a transport failure (a non-OK
\* status, fetch throwing, a read throwing), its streaming placeholder is no
\* longer in the view, the view is otherwise as before with exactly one error
\* message added at its end, and chats is unchanged.
C19_TransportFailure ==
    [][(Completes("fetchFailed") \/ Completes("readThrew"))
       => (/\ chats' = chats
           /\ \A i \in DOMAIN view' : view'[i].id # last'.n
           /\ view' # <<>>
           /\ view'[Len(view')].type = "error"
           /\ SubSeq(view', 1, Len(view') - 1)
                  = SelectSeq(view, LAMBDA e : e.id # last'.n)
           /\ ErrorCount(view') = ErrorCount(view) + 1)]_vars

\* C19 witness: a read threw after the turn had started; the user's message
\* is followed by the error message, the placeholder between them is gone.
C19_Witness ==
    /\ last.op = "readThrew"
    /\ \E i \in DOMAIN view :
          /\ i + 1 \in DOMAIN view
          /\ view[i].type = "user" /\ view[i].chat = 0
          /\ view[i + 1].type = "error"

\* C20: when POST /new-chat ends with an error field or by throwing, chats
\* and currentChatId are as they were (null, unless the user selected a
\* session meanwhile), no load is started, and an error message is added at
\* the end of the view.
C20_FailedCreation ==
    [][Completes("createFailed")
       => (/\ chats' = chats
           /\ currentChatId' = currentChatId
           /\ loads' = loads
           /\ view' # <<>>
           /\ view'[Len(view')].type = "error"
           /\ SubSeq(view', 1, Len(view') - 1) = view)]_vars

\* C20 witness: a creation failed while the list held sessions; no session
\* is active and the user's message is followed by the error message.
C20_Witness ==
    /\ last.op = "createFailed"
    /\ chats # <<>>
    /\ currentChatId = NULL
    /\ Len(view) = 2
    /\ view[1].type = "user"
    /\ view[2].type = "error"

\* C21: the session the last completed creation inserted into chats stays
\* in chats in every step but the one that completes its deletion.
C21_CreatedSessionStays ==
    [][(last.op = "createOk" /\ last.chat \in IdsOf(chats))
       => \/ last.chat \in IdsOf(chats')
          \/ Completes("deleteOk") /\ last'.chat = last.chat]_vars

\* The text without the complete data events whose payload is not JSON
\* that come before [DONE].
RECURSIVE WithoutInvalid(_)
WithoutInvalid(text) ==
    IF IndexOfBoundary(text) = -1 THEN text
    ELSE LET end == IndexOfBoundary(text) + 2
             line == Trim(SubstringTo(text, end - 2))
             data == SubstringFrom(line, Len(DataPrefix))
             rest == WithoutInvalid(SubstringFrom(text, end))
         IN  IF ~StartsWith(line, DataPrefix) THEN SubstringTo(text, end) \o rest
             ELSE IF data = DoneData THEN text
             ELSE IF JSONParse(data).kind = "invalid" THEN rest
             ELSE SubstringTo(text, end) \o rest

IsValidEvent(e) == e.kind # "invalid"

\* The view a streamed turn starts from: the user's message and the
\* placeholder.
StreamView(t) ==
    AddStreamingMessagePlaceholder(AddMessageToUI(<<>>, "user", t.message, 0), t.tid)

\* The turn stands where one read of the text received with its invalid
\* events taken out would have left it.
AsIfNeverSent(t, v) ==
    LET clean == ProcessBuffer(
                     ParseState(WithoutInvalid(Received(t)), <<>>, StreamView(t), <<>>),
                     t.tid)
    IN  /\ t.fullResponse = clean.fullResponse
        /\ v = clean.view
        /\ t.buffer = clean.buffer
        /\ SelectSeq(t.events, IsValidEvent) = clean.events

\* C22: complete data events whose payload is not JSON have no effect:
\* after every read, and when the turn ends by [DONE] or by the channel
\* closing, the accumulated text, the view, the buffer and the other events
\* acted on are those of the same stream without the invalid events.
C22_InvalidJsonSkipped ==
    /\ \A t \in turns : t.phase = "reading" => AsIfNeverSent(t, view)
    /\ last.op \in {"readReturned", "readDone"} => AsIfNeverSent(last.turn, view)

\* C22 witness: an event with an invalid payload was consumed and a token
\* after it was rendered.
C22_Witness ==
    \E t \in turns : \E i, j \in DOMAIN t.events :
        /\ i < j
        /\ t.events[i].kind = "invalid"
        /\ t.events[j].kind = "token"
        /\ t.fullResponse # <<>>

\* C23: a deleteChat call that ends without the server's OK (the user
\* declines the confirmation, the answer is a non-OK status, the request
\* throws) leaves chats, currentChatId and the view as they were.
C23_FailedDeletion ==
    [][(DeleteDeclined \/ DeleteFails \/ Completes("deleteFailed"))
       => UNCHANGED <<chats, currentChatId, view>>]_vars

\* C23 witness: the deletion of the active session, with messages on
\* display, was refused; the session is still listed and active.
C23_Witness ==
    /\ last.op = "deleteFailed"
    /\ last.chat \in IdsOf(chats)
    /\ currentChatId = last.chat
    /\ view # <<>>

\* The events acted on end with [DONE], the only one of them, and are as
\* many as the boundaries up to it; what was read after it is in the buffer.
ClosedAtDone(t) ==
    LET received == Received(t)
        consumed == SubSeq(received, 1, Len(received) - Len(t.buffer))
        n == Len(t.events)
    IN  /\ n > 0
        /\ t.events[n].kind = "done"
        /\ \A i \in 1..(n - 1) : t.events[i].kind # "done"
        /\ EndsWith(received, t.buffer)
        /\ EndsWith(consumed, DoneFrame)
        /\ n = CompleteEvents(consumed)

\* C24: no call that has acted on [DONE] is still reading, and a call that
\* ended at [DONE] acted on no event after it: the complete events that
\* arrived in the same read are left in the buffer, what had not been read
\* is never read.
C24_DoneClosesParser ==
    /\ \A t \in turns : ~HasEvent(t.events, "done")
    /\ last.op = "readReturned" =>
          (ClosedAtDone(last.turn) /\ \A t \in turns : t.tid # last.n)

\* C24 witness: the call ended at [DONE] with a complete event behind it in
\* the buffer and more of the body not read.
C24_Witness ==
    /\ last.op = "readReturned"
    /\ IndexOfBoundary(last.turn.buffer) # -1
    /\ StartsWith(last.turn.buffer, DataPrefix)
    /\ Rest(last.turn) # <<>>

====
